---- MODULE Spec2Model ----
(***************************************************************************)
(* FinancialSituationMemory (tradingagents/agents/utils/memory.py): a      *)
(* store of (situation, recommendation) pairs in a pinned and a regular    *)
(* tier, a BM25 index over pinned + regular, an optional cache of corpus   *)
(* embeddings, and get_memories, which scores, time-weights, sorts and     *)
(* normalises.                                                             *)
(*                                                                         *)
(* Floats are fixed-point integers in units of 1/Scale.  A text is a       *)
(* record of its words and of the digit groups of its "(YYYY-MM-DD)"       *)
(* token (<<>> when it has none).  Every text of the universe holds at     *)
(* least one word.                                                         *)
(***************************************************************************)
EXTENDS Integers, Sequences, FiniteSets, TLC

\* ------------------------------------------------------------------ bounds
\* pairs inserted between two clears
MaxInserted == 2
\* pairs in one add_situations batch
MaxBatch == 2
\* largest n_matches asked for
MaxK == 2

\* one float unit: 1.0 is Scale
Scale == 1000

\* _doc_embeddings = None (a matrix is never built empty)
NoMatrix == <<>>

\* ------------------------------------------------------------------ texts
Txt(w, d) == [words |-> w, date |-> d]

SitRecent == Txt(<<"BTC", "drop">>, <<"2024", "03", "12">>)
SitMid    == Txt(<<"BTC", "drop">>, <<"2024", "03", "05">>)
SitOld    == Txt(<<"BTC", "drop">>, <<"2024", "01", "15">>)
SitBad    == Txt(<<"BTC", "drop">>, <<"2024", "13", "01">>)
SitFed    == Txt(<<"Fed", "hike", "pause">>, <<>>)
Play1     == Txt(<<"BTC", "drop", "pinned", "playbook", "rule">>, <<>>)
Play2     == Txt(<<"Fed", "pinned">>, <<"2024", "03", "14">>)

\* the (situation, recommendation) pairs callers insert
Pairs ==
    { <<SitRecent, "recRecent">>, <<SitMid, "recMid">>, <<SitOld, "recOld">>,
      <<SitBad, "recBad">>, <<SitFed, "recFed">> }

\* the playbooks assigned to the pinned collection
PinnedChoices ==
    { <<>>, << <<Play1, "PINNED1">>, <<Play2, "PINNED2">> >> }

Queries == { Txt(<<"BTC", "drop">>, <<>>), Txt(<<"gold">>, <<>>) }

Date(y, m, d) == [y |-> y, m |-> m, d |-> d]
NoDate == Date(0, 0, 0)
RefDates == { NoDate, Date(2024, 3, 15) }

KChoices == (0 - 1) .. MaxK
\* FinancialSituationMemory(name, config, max_documents) as constructed
Configs ==
    { [max_documents |-> 0 - 1, hybrid_search |-> FALSE],
      [max_documents |-> 0, hybrid_search |-> FALSE],
      [max_documents |-> 0, hybrid_search |-> TRUE],
      [max_documents |-> 1, hybrid_search |-> TRUE],
      [max_documents |-> 2, hybrid_search |-> FALSE] }

\* --------------------------------------------------------------- sequences
RECURSIVE SumSeq(_)
SumSeq(s) == IF s = <<>> THEN 0 ELSE Head(s) + SumSeq(Tail(s))

RECURSIVE MaxSeq(_)
MaxSeq(s) ==
    IF Len(s) = 1 THEN s[1]
    ELSE LET m == MaxSeq(Tail(s)) IN IF s[1] >= m THEN s[1] ELSE m
RECURSIVE MinSeq(_)
MinSeq(s) ==
    IF Len(s) = 1 THEN s[1]
    ELSE LET m == MinSeq(Tail(s)) IN IF s[1] <= m THEN s[1] ELSE m

Count(tok, toks) == Cardinality({ i \in 1..Len(toks) : toks[i] = tok })

\* s[n:] and s[:n] of Python, n >= 0
\* a variant of the eviction slice that keeps the oldest entries: docs[:-excess]
DropLast(s, n) == IF n >= Len(s) THEN <<>> ELSE SubSeq(s, 1, Len(s) - n)
DropFirst(s, n) == IF n >= Len(s) THEN <<>> ELSE SubSeq(s, n + 1, Len(s))
TakeFirst(s, n) == IF n >= Len(s) THEN s ELSE SubSeq(s, 1, n)

\* ---------------------------------------------------------------- _tokenize
Lower(w) == CASE w = "BTC" -> "btc"
              [] w = "Fed" -> "fed"
              [] w = "High" -> "high"
              [] w = "None" -> "none"
              [] OTHER -> w

\* re.findall(r'\b\w+\b', text.lower()): the words, then the three digit
\* groups of the date token
Tokenize(text) == [i \in 1..Len(text.words) |-> Lower(text.words[i])] \o text.date

\* ------------------------------------------------------------ _extract_date
Num(s) == CASE s = "2024" -> 2024
            [] s = "01" -> 1  [] s = "03" -> 3  [] s = "05" -> 5
            [] s = "12" -> 12 [] s = "13" -> 13 [] s = "14" -> 14
            [] s = "15" -> 15 [] s = "02" -> 2  [] s = "07" -> 7
            [] s = "08" -> 8  [] s = "18" -> 18

IsLeap(y) == y % 4 = 0 /\ (y % 100 # 0 \/ y % 400 = 0)
DaysInMonth(y, m) == CASE m \in {4, 6, 9, 11} -> 30
                       [] m = 2 -> IF IsLeap(y) THEN 29 ELSE 28
                       [] OTHER -> 31
RECURSIVE DaysBeforeMonth(_, _)
DaysBeforeMonth(y, m) ==
    IF m = 1 THEN 0 ELSE DaysBeforeMonth(y, m - 1) + DaysInMonth(y, m - 1)
ToOrdinal(dt) ==
    LET p == dt.y - 1
    IN  p * 365 + (p \div 4) - (p \div 100) + (p \div 400)
          + DaysBeforeMonth(dt.y, dt.m) + dt.d

\* strptime(..., "%Y-%m-%d") accepts the token
ValidDate(y, m, d) == y >= 1 /\ m \in 1..12 /\ d \in 1..DaysInMonth(y, m)

\* the regular expression matches and strptime raises ValueError
ExtractDateRaises(text) ==
    /\ text.date # <<>>
    /\ ~ValidDate(Num(text.date[1]), Num(text.date[2]), Num(text.date[3]))

\* the date of the token, NoDate when the text has no token
ExtractDate(text) ==
    IF text.date = <<>> THEN NoDate
    ELSE Date(Num(text.date[1]), Num(text.date[2]), Num(text.date[3]))

\* ---------------------------------------------------------------- BM25Okapi
\* round(Scale * ln(n + 0.5))
LnHalf(n) == << 0 - 693, 405, 916, 1253, 1504, 1705, 1872, 2015, 2140, 2251 >>[n + 1]

\* the words of one token list
WordSet(toks) == { toks[j] : j \in 1..Len(toks) }

\* BM25Okapi(tokenized_docs): the token lists, their total length (avgdl is
\* total / corpus size) and the idf of every word: with nd[w] the number of
\* documents that hold w, log(N - nd[w] + 0.5) - log(nd[w] + 0.5), a negative
\* idf replaced by epsilon * average_idf, epsilon = 0.25
BM25Okapi(corpus) ==
    LET n == Len(corpus)
        sets == [i \in 1..n |-> WordSet(corpus[i])]
        ws == UNION { sets[i] : i \in 1..n }
        nd == [w \in ws |-> Cardinality({ i \in 1..n : w \in sets[i] })]
        log_ratio == [c \in 1..n |-> LnHalf(n - c) - LnHalf(c)]
        raw == [w \in ws |-> log_ratio[nd[w]]]
        \* idf_sum: the words grouped by the number of documents holding them
        idf_sum == SumSeq([c \in 1..n |->
                       Cardinality({ w \in ws : nd[w] = c }) * log_ratio[c]])
        average_idf == idf_sum \div Cardinality(ws)
    IN  [docs |-> corpus,
         total |-> SumSeq([i \in 1..n |-> Len(corpus[i])]),
         idf |-> [w \in ws |-> IF raw[w] < 0 THEN average_idf \div 4 ELSE raw[w]]]

\* self.bm25 = None
NoIndex == [docs |-> <<>>, total |-> 0, idf |-> <<>>]

\* (idf.get(q) or 0) * f (k1 + 1) / (f + k1 (1 - b + b dl / avgdl)),
\* k1 = 1.5, b = 0.75
TermScore(index, i, q) ==
    LET f == Count(q, index.docs[i])
    IN  IF f = 0 \/ q \notin DOMAIN index.idf THEN 0
        ELSE (index.idf[q] * 20 * f * index.total)
               \div (8 * f * index.total + 3 * index.total
                       + 9 * Len(index.docs[i]) * Len(index.docs))

\* BM25Okapi.get_scores: one score per indexed document
GetScores(index, query_tokens) ==
    [i \in 1..Len(index.docs) |->
        SumSeq([j \in 1..Len(query_tokens) |-> TermScore(index, i, query_tokens[j])])]

\* floor division, also by a negative float
Div(a, b) == IF b > 0 THEN a \div b ELSE (0 - a) \div (0 - b)

\* ------------------------------------------------------------ _ollama_embed
\* the vector the embedding model gives a text
Embed(text) ==
    CASE text = SitRecent -> <<3, 4>>
      [] text = SitMid -> <<4, 3>>
      [] text = SitOld -> <<5, 0>>
      [] text = SitBad -> <<0, 5>>
      [] text = SitFed -> <<0, 0>>
      [] text = Play1 -> <<4, 3>>
      [] text = Play2 -> <<0 - 3, 4>>
      [] text.words = <<"gold">> -> <<0, 5>>
      [] OTHER -> <<3, 4>>

\* a variant of the request count that tries a second time after a failure
UrlOpensRetry(reachable) == IF reachable THEN 1 ELSE 2

\* how many requests one call of _ollama_embed sends: one urlopen, inside a
\* try whose except returns None
UrlOpens(reachable) == 1

\* the (N, dim) matrix, or None when the request fails
OllamaEmbed(texts, reachable) ==
    IF reachable THEN [i \in 1..Len(texts) |-> Embed(texts[i])] ELSE NoMatrix

\* ------------------------------------------------------- _ensure_embeddings
\* [emb, dirty, fetch]: the cache and flag afterwards, and what the request
\* for the corpus did ("none" when no request was sent)
\* a variant that keeps the previous matrix when the fetch fails
EnsureEmbeddingsKeepStale(st, reachable) ==
    IF ~st.embeddings_dirty \/ ~st.hybrid_enabled
    THEN [emb |-> st.doc_embeddings, dirty |-> st.embeddings_dirty, fetch |-> "none"]
    ELSE IF st.pinned_documents \o st.documents = <<>>
    THEN [emb |-> NoMatrix, dirty |-> FALSE, fetch |-> "none"]
    ELSE [emb |-> IF reachable
                  THEN OllamaEmbed(st.pinned_documents \o st.documents, reachable)
                  ELSE st.doc_embeddings,
          dirty |-> FALSE,
          fetch |-> IF reachable THEN "ok" ELSE "failed"]

\* a variant that leaves the cache dirty when the fetch fails, so that the
\* next call asks the backend again
EnsureEmbeddingsRetry(st, reachable) ==
    IF ~st.embeddings_dirty \/ ~st.hybrid_enabled
    THEN [emb |-> st.doc_embeddings, dirty |-> st.embeddings_dirty, fetch |-> "none"]
    ELSE IF st.pinned_documents \o st.documents = <<>>
    THEN [emb |-> NoMatrix, dirty |-> FALSE, fetch |-> "none"]
    ELSE [emb |-> OllamaEmbed(st.pinned_documents \o st.documents, reachable),
          dirty |-> ~reachable,
          fetch |-> IF reachable THEN "ok" ELSE "failed"]

\* a variant of _ensure_embeddings that does not look at the hybrid switch
EnsureEmbeddingsAnyMode(st, reachable) ==
    IF ~st.embeddings_dirty
    THEN [emb |-> st.doc_embeddings, dirty |-> st.embeddings_dirty, fetch |-> "none"]
    ELSE IF st.pinned_documents \o st.documents = <<>>
    THEN [emb |-> NoMatrix, dirty |-> FALSE, fetch |-> "none"]
    ELSE [emb |-> OllamaEmbed(st.pinned_documents \o st.documents, reachable),
          dirty |-> FALSE,
          fetch |-> IF reachable THEN "ok" ELSE "failed"]

EnsureEmbeddings(st, reachable) ==
    IF ~st.embeddings_dirty \/ ~st.hybrid_enabled
    THEN [emb |-> st.doc_embeddings, dirty |-> st.embeddings_dirty, fetch |-> "none"]
    ELSE IF st.pinned_documents \o st.documents = <<>>
    THEN [emb |-> NoMatrix, dirty |-> FALSE, fetch |-> "none"]
    ELSE [emb |-> OllamaEmbed(st.pinned_documents \o st.documents, reachable),
          dirty |-> FALSE,
          fetch |-> IF reachable THEN "ok" ELSE "failed"]

\* ------------------------------------------------------------- get_memories
Norm(v) == CHOOSE n \in 0..10 : n * n = v[1] * v[1] + v[2] * v[2]
OrOne(x) == IF x = 0 THEN 1 ELSE x

\* d @ q after both are divided by their norms (a zero norm becomes 1)
Cosine(d, q) ==
    Div((d[1] * q[1] + d[2] * q[2]) * Scale, OrOne(Norm(d)) * OrOne(Norm(q)))
VectorScores(emb, q) == [i \in 1..Len(emb) |-> Cosine(emb[i], q)]

Bm25Norm(bm25_scores) ==
    LET m == MaxSeq(bm25_scores)
        bm25_max == IF m = 0 THEN Scale ELSE m
    IN  [i \in 1..Len(bm25_scores) |-> Div(bm25_scores[i] * Scale, bm25_max)]
VecNorm(vector_scores) ==
    LET vec_min == MinSeq(vector_scores)
        vec_max == MaxSeq(vector_scores)
        vec_range == IF vec_max = vec_min THEN Scale ELSE vec_max - vec_min
    IN  [i \in 1..Len(vector_scores) |->
            Div((vector_scores[i] - vec_min) * Scale, vec_range)]

\* numpy cannot broadcast the two score vectors: ValueError
FuseRaises(bm25_norm, vec_norm) ==
    Len(bm25_norm) # Len(vec_norm) /\ Len(bm25_norm) # 1 /\ Len(vec_norm) # 1

\* _HYBRID_ALPHA * bm25_norm + (1 - _HYBRID_ALPHA) * vec_norm with numpy's
\* broadcasting of a length-1 operand
Fuse(bm25_norm, vec_norm) ==
    LET a == Len(bm25_norm)
        b == Len(vec_norm)
        n == IF a >= b THEN a ELSE b
    IN  [i \in 1..n |->
            (6 * bm25_norm[IF a = 1 THEN 1 ELSE i]
               + 4 * vec_norm[IF b = 1 THEN 1 ELSE i]) \div 10]

\* the body of the weighting loop raises at position i (1-based): all_docs[i]
\* is out of range, or strptime rejects the date token
TimeWeightRaises(i, n_pinned, all_docs) ==
    /\ i > n_pinned
    /\ \/ i > Len(all_docs)
       \/ ExtractDateRaises(all_docs[i])

\* a variant of the multiplier with < in place of <= at both age limits
TimeWeightStrict(i, n_pinned, all_docs, reference_date) ==
    IF reference_date = NoDate THEN 1
    ELSE IF i <= n_pinned THEN 4
    ELSE LET doc_date == ExtractDate(all_docs[i])
         IN  IF doc_date = NoDate THEN 1
             ELSE LET age_days == ToOrdinal(reference_date) - ToOrdinal(doc_date)
                  IN  IF age_days < 7 THEN 3
                      ELSE IF age_days < 30 THEN 2
                      ELSE 1

\* the multiplier of position i
TimeWeight(i, n_pinned, all_docs, reference_date) ==
    IF reference_date = NoDate THEN 1
    ELSE IF i <= n_pinned THEN 4
    ELSE LET doc_date == ExtractDate(all_docs[i])
         IN  IF doc_date = NoDate THEN 1
             ELSE LET age_days == ToOrdinal(reference_date) - ToOrdinal(doc_date)
                  IN  IF age_days <= 7 THEN 3
                      ELSE IF age_days <= 30 THEN 2
                      ELSE 1

\* a variant of the sort that is not stable: of equal scores the later
\* position comes first
SortedIndicesTiesLast(scores) ==
    LET before(j, i) == scores[j] > scores[i] \/ (scores[j] = scores[i] /\ j > i)
        rank == [i \in 1..Len(scores) |->
                    Cardinality({ j \in 1..Len(scores) : before(j, i) })]
    IN  [p \in 1..Len(scores) |-> CHOOSE i \in 1..Len(scores) : rank[i] = p - 1]

\* a variant of the sort without reverse=True: smallest score first
SortedIndicesAscending(scores) ==
    LET before(j, i) == scores[j] < scores[i] \/ (scores[j] = scores[i] /\ j < i)
        rank == [i \in 1..Len(scores) |->
                    Cardinality({ j \in 1..Len(scores) : before(j, i) })]
    IN  [p \in 1..Len(scores) |-> CHOOSE i \in 1..Len(scores) : rank[i] = p - 1]

\* sorted(range(len(scores)), key=lambda i: scores[i], reverse=True): a stable
\* sort, equal scores keep their corpus order
SortedIndices(scores) ==
    LET before(j, i) == scores[j] > scores[i] \/ (scores[j] = scores[i] /\ j < i)
        rank == [i \in 1..Len(scores) |->
                    Cardinality({ j \in 1..Len(scores) : before(j, i) })]
    IN  [p \in 1..Len(scores) |-> CHOOSE i \in 1..Len(scores) : rank[i] = p - 1]

\* s[:n_matches], a negative n_matches counting from the end
Slice(s, n_matches) ==
    IF n_matches >= 0 THEN TakeFirst(s, n_matches)
    ELSE IF Len(s) + n_matches <= 0 THEN <<>>
    ELSE SubSeq(s, 1, Len(s) + n_matches)

AllDocs(st) == st.pinned_documents \o st.documents
\* a variant that concatenates the recommendations in the other order
AllRecsRegularFirst(st) == st.recommendations \o st.pinned_recommendations
AllRecs(st) == st.pinned_recommendations \o st.recommendations

\* max(scores) if max(scores) > 0 else 1
MaxScore(scores) == IF MaxSeq(scores) > 0 THEN MaxSeq(scores) ELSE Scale

\* scores[idx] / max_score
Normalized(score, max_score) == Div(score * Scale, max_score)

\* all_docs[idx] or all_recs[idx] is out of range for a selected index:
\* IndexError
BuildResultsRaises(st, top_indices) ==
    \E p \in 1..Len(top_indices) :
        \/ top_indices[p] > Len(AllDocs(st))
        \/ top_indices[p] > Len(AllRecs(st))

BuildResults(st, scores, top_indices) ==
    LET max_score == MaxScore(scores)
        all_docs == AllDocs(st)
        all_recs == AllRecs(st)
    IN  [p \in 1..Len(top_indices) |->
            [matched_situation |-> all_docs[top_indices[p]],
             recommendation |-> all_recs[top_indices[p]],
             similarity_score |-> Normalized(scores[top_indices[p]], max_score)]]

\* a variant of the early return that tests the index only
EmptyCorpusIndexOnly(st) == st.bm25 = NoIndex

\* if not all_docs or self.bm25 is None: return []
EmptyCorpus(st) == AllDocs(st) = <<>> \/ st.bm25 = NoIndex

\* get_memories up to the time weighting: the requests sent, the cache and
\* flag left, the scores before and after the boost and the positions sorted
\* by score; stage tells whether the call has already ended ("empty": an empty
\* result for an empty corpus; "raise") or goes on to select ("scored")
Scores(st, current_situation, reference_date, net) ==
    LET all_docs == AllDocs(st)
        bm25_scores == GetScores(st.bm25, Tokenize(current_situation))
        ens == EnsureEmbeddings(st, net.corpus)
        asks_query == st.hybrid_enabled /\ ens.emb # NoMatrix
        query_emb == OllamaEmbed(<<current_situation>>, net.query)
        use_hybrid == asks_query /\ query_emb # NoMatrix
        bm25_norm == Bm25Norm(bm25_scores)
        vec_norm == VecNorm(VectorScores(ens.emb, query_emb[1]))
        fused == IF use_hybrid THEN Fuse(bm25_norm, vec_norm) ELSE bm25_scores
        n_pinned == Len(st.pinned_documents)
        raising == { i \in 1..Len(fused) : TimeWeightRaises(i, n_pinned, all_docs) }
        first == CHOOSE i \in raising : \A j \in raising : i <= j
        scores == [i \in 1..Len(fused) |->
                      fused[i] * TimeWeight(i, n_pinned, all_docs, reference_date)]
        out(stage, error, fu, sc, e, hyb) ==
            [stage |-> stage, error |-> error, fused |-> fu, scores |-> sc,
             order |-> SortedIndices(sc),
             emb |-> e.emb, dirty |-> e.dirty, corpus_fetch |-> e.fetch,
             query_fetch |-> IF ~hyb THEN "none"
                             ELSE IF net.query THEN "ok" ELSE "failed",
             corpus_requests |-> IF e.fetch = "none" THEN 0 ELSE UrlOpens(net.corpus),
             query_requests |-> IF ~hyb THEN 0 ELSE UrlOpens(net.query),
             use_hybrid |-> hyb /\ use_hybrid]
        untouched == [emb |-> st.doc_embeddings, dirty |-> st.embeddings_dirty,
                      fetch |-> "none"]
    IN  IF EmptyCorpus(st)
        THEN out("empty", "", <<>>, <<>>, untouched, FALSE)
        ELSE IF use_hybrid /\ FuseRaises(bm25_norm, vec_norm)
        THEN out("raise", "ValueError", <<>>, <<>>, ens, asks_query)
        ELSE IF reference_date # NoDate /\ raising # {}
        THEN out("raise",
                 IF first > Len(all_docs) THEN "IndexError" ELSE "ValueError",
                 <<>>, <<>>, ens, asks_query)
        ELSE out("scored", "", fused, scores, ens, asks_query)

\* the rest of get_memories: the first n_matches positions and their results
TopMatches(st, s, n_matches) ==
    LET top_indices == Slice(s.order, n_matches)
        out(outcome, error, result, top) ==
            [outcome |-> outcome, error |-> error, result |-> result,
             fused |-> s.fused, scores |-> s.scores, top_indices |-> top,
             emb |-> s.emb, dirty |-> s.dirty, corpus_fetch |-> s.corpus_fetch,
             query_fetch |-> s.query_fetch,
             corpus_requests |-> s.corpus_requests,
             query_requests |-> s.query_requests, use_hybrid |-> s.use_hybrid]
    IN  IF s.stage = "empty" THEN out("return", "", <<>>, <<>>)
        ELSE IF s.stage = "raise" THEN out("raise", s.error, <<>>, <<>>)
        ELSE IF BuildResultsRaises(st, top_indices)
        THEN out("raise", "IndexError", <<>>, top_indices)
        ELSE out("return", "", BuildResults(st, s.scores, top_indices), top_indices)

\* what one call of get_memories does: how it ends, what it returns, the
\* embedding cache and flag it leaves, and the requests it sent
GetMemories(st, current_situation, n_matches, reference_date, net) ==
    TopMatches(st, Scores(st, current_situation, reference_date, net), n_matches)

\* --------------------------------------------------- add_situations, clear
\* the BM25 index over pinned + regular, None for an empty corpus
RebuildIndex(pinned_docs, docs) ==
    LET all_docs == pinned_docs \o docs
    IN  IF all_docs = <<>> THEN NoIndex
        ELSE BM25Okapi([i \in 1..Len(all_docs) |-> Tokenize(all_docs[i])])

\* a variant of the cap test with >= 0 in place of > 0
ExcessZeroIsCap(docs, max_docs) ==
    IF max_docs >= 0 /\ Len(docs) > max_docs THEN Len(docs) - max_docs ELSE 0

\* how many of the oldest entries the cap removes
Excess(docs, max_docs) ==
    IF max_docs > 0 /\ Len(docs) > max_docs THEN Len(docs) - max_docs ELSE 0

Firsts(pairs) == [i \in 1..Len(pairs) |-> pairs[i][1]]
Seconds(pairs) == [i \in 1..Len(pairs) |-> pairs[i][2]]

\* ------------------------------------------------------------------- state
\* ------------------------------------------------------ create_initial_state
\* a str is the sequence of its pieces: "" is <<>> and + is \o
EmptyStr == <<>>

\* Propagator.create_initial_state(company_name, trade_date, market_type),
\* no pre_reports
CreateInitialState(company_name, trade_date, market_type) ==
    [messages |-> << <<"human", company_name>> >>,
     company_of_interest |-> company_name,
     trade_date |-> trade_date,
     market_type |-> market_type,
     investment_debate_state |->
         [history |-> EmptyStr, current_response |-> EmptyStr, count |-> 0],
     risk_debate_state |->
         [history |-> EmptyStr,
          current_aggressive_response |-> EmptyStr,
          current_conservative_response |-> EmptyStr,
          current_neutral_response |-> EmptyStr,
          count |-> 0],
     market_report |-> EmptyStr,
     fundamentals_report |-> EmptyStr,
     sentiment_report |-> EmptyStr,
     news_report |-> EmptyStr]

\* ---------------------------------------------------------------- the state
VARIABLES
    \* the add_situations call in progress in another thread: the statement it
    \* is at, the pairs it has not appended yet, and its local excess
    adding,
    \* the AgentState the graph nodes read and update
    state,
    \* history: how many runs of each node completed
    runs,
    \* history: the last node run and what it did
    node,
    \* history: the last process_signal call, its arguments and its result
    signal,
    max_documents,
    documents,
    recommendations,
    pinned_documents,
    pinned_recommendations,
    bm25,
    doc_embeddings,
    embeddings_dirty,
    hybrid_enabled,
    \* history: the pairs passed to add_situations since the last clear
    inserted,
    \* history: the last call, its arguments and what it did
    last

memory_vars == << max_documents, documents, recommendations, pinned_documents,
                  pinned_recommendations, bm25, doc_embeddings, embeddings_dirty,
                  hybrid_enabled, inserted, last >>
graph_vars == << state, runs, node >>
signal_vars == << signal >>
vars == << memory_vars, adding, graph_vars, signal_vars >>

Store ==
    [max_documents |-> max_documents, documents |-> documents,
     recommendations |-> recommendations, pinned_documents |-> pinned_documents,
     pinned_recommendations |-> pinned_recommendations, bm25 |-> bm25,
     doc_embeddings |-> doc_embeddings, embeddings_dirty |-> embeddings_dirty,
     hybrid_enabled |-> hybrid_enabled]

Call(op) ==
    [op |-> op, query |-> Txt(<<>>, <<>>), k |-> 0, ref |-> NoDate,
     outcome |-> "return", error |-> "", result |-> <<>>, fused |-> <<>>,
     scores |-> <<>>, top_indices |-> <<>>, corpus_fetch |-> "none", query_fetch |-> "none",
     corpus_requests |-> 0, query_requests |-> 0, use_hybrid |-> FALSE]

\* no add_situations call is in progress
NotAdding == [pc |-> "idle", rest |-> <<>>, excess |-> 0]

Nodes == { "bull", "bear", "research_manager", "trader", "conservative",
           "neutral", "risk_manager" }

\* a node run: how it ended, the LLM calls it made and, for the risk manager,
\* the first answer, the answer to the refine prompt, the issues found and
\* what _self_refine returned
NodeRun(name) ==
    [name |-> name, outcome |-> "return", error |-> "", llm_calls |-> 0,
     has_memory |-> FALSE, response |-> EmptyStr, refined |-> EmptyStr,
     issues |-> <<>>, content |-> EmptyStr]

\* a graph that has not started
GraphIdle ==
    /\ state = CreateInitialState("BTCUSDT", "2024-03-15", "crypto")
    /\ runs = [n \in Nodes |-> 0]
    /\ node = NodeRun("idle")

SignalCall(raw, market_type, suggested_direction, result) ==
    [raw |-> raw, market_type |-> market_type,
     suggested_direction |-> suggested_direction, result |-> result]

\* no process_signal call was made
SignalIdle == signal = SignalCall(<<>>, "", "", "")

\* FinancialSituationMemory(name, config, max_documents) just constructed
FreshStore(config) ==
    /\ max_documents = config.max_documents
    /\ hybrid_enabled = config.hybrid_search
    /\ documents = <<>>
    /\ recommendations = <<>>
    /\ pinned_documents = <<>>
    /\ pinned_recommendations = <<>>
    /\ bm25 = NoIndex
    /\ doc_embeddings = NoMatrix
    /\ embeddings_dirty = TRUE
    /\ inserted = <<>>
    /\ last = Call("idle")

Init ==
    /\ adding = NotAdding
    /\ GraphIdle
    /\ SignalIdle
    /\ \E config \in Configs : FreshStore(config)

Batches == UNION { [1..n -> Pairs] : n \in 0..MaxBatch }

\* a variant of add_situations whose cap counts the pinned entries too and
\* trims from the front of pinned + regular
AddSituationsCapAll(situations_and_advice) ==
    LET docs == pinned_documents \o documents \o Firsts(situations_and_advice)
        recs == pinned_recommendations \o recommendations
                    \o Seconds(situations_and_advice)
        excess == Excess(docs, max_documents)
        kept == IF excess >= Len(pinned_documents) THEN 0
                ELSE Len(pinned_documents) - excess
    IN  /\ last.op # "get_memories"
        /\ Len(inserted) + Len(situations_and_advice) <= MaxInserted
        /\ pinned_documents' = DropFirst(pinned_documents, excess)
        /\ pinned_recommendations' = DropFirst(pinned_recommendations, excess)
        /\ documents' = DropFirst(DropFirst(docs, excess), kept)
        /\ recommendations' = DropFirst(DropFirst(recs, excess), kept)
        /\ bm25' = RebuildIndex(pinned_documents', documents')
        /\ embeddings_dirty' = TRUE
        /\ inserted' = inserted \o situations_and_advice
        /\ last' = Call("idle")
        /\ UNCHANGED << adding, graph_vars, signal_vars, max_documents, doc_embeddings, hybrid_enabled >>

\* a variant of add_situations that rebuilds the index without marking the
\* embedding cache dirty
AddSituationsKeepsClean(situations_and_advice) ==
    LET docs == documents \o Firsts(situations_and_advice)
        recs == recommendations \o Seconds(situations_and_advice)
        excess == Excess(docs, max_documents)
    IN  /\ last.op # "get_memories"
        /\ Len(inserted) + Len(situations_and_advice) <= MaxInserted
        /\ documents' = DropFirst(docs, excess)
        /\ recommendations' = DropFirst(recs, excess)
        /\ bm25' = RebuildIndex(pinned_documents, documents')
        /\ inserted' = inserted \o situations_and_advice
        /\ last' = Call("idle")
        /\ UNCHANGED << adding, graph_vars, signal_vars, max_documents, pinned_documents, pinned_recommendations,
                        doc_embeddings, embeddings_dirty, hybrid_enabled >>

AddSituations(situations_and_advice) ==
    LET docs == documents \o Firsts(situations_and_advice)
        recs == recommendations \o Seconds(situations_and_advice)
        excess == Excess(docs, max_documents)
    IN  /\ last.op # "get_memories"
        /\ Len(inserted) + Len(situations_and_advice) <= MaxInserted
        /\ documents' = DropFirst(docs, excess)
        /\ recommendations' = DropFirst(recs, excess)
        /\ bm25' = RebuildIndex(pinned_documents, documents')
        /\ embeddings_dirty' = TRUE
        /\ inserted' = inserted \o situations_and_advice
        /\ last' = Call("idle")
        /\ UNCHANGED << adding, graph_vars, signal_vars, max_documents, pinned_documents, pinned_recommendations,
                        doc_embeddings, hybrid_enabled >>

\* a variant of clear without the rebuild for the pinned entries that stay
ClearNoRebuild(include_pinned) ==
    /\ last.op # "get_memories"
    /\ documents' = <<>>
    /\ recommendations' = <<>>
    /\ pinned_documents' = IF include_pinned THEN <<>> ELSE pinned_documents
    /\ pinned_recommendations' =
           IF include_pinned THEN <<>> ELSE pinned_recommendations
    /\ bm25' = NoIndex
    /\ doc_embeddings' = NoMatrix
    /\ embeddings_dirty' = TRUE
    /\ inserted' = <<>>
    /\ last' = Call("idle")
    /\ UNCHANGED << adding, graph_vars, signal_vars, max_documents, hybrid_enabled >>

Clear(include_pinned) ==
    /\ last.op # "get_memories"
    /\ documents' = <<>>
    /\ recommendations' = <<>>
    /\ pinned_documents' = IF include_pinned THEN <<>> ELSE pinned_documents
    /\ pinned_recommendations' =
           IF include_pinned THEN <<>> ELSE pinned_recommendations
    /\ bm25' = IF ~include_pinned /\ pinned_documents # <<>>
               THEN RebuildIndex(pinned_documents, documents')
               ELSE NoIndex
    /\ doc_embeddings' = NoMatrix
    /\ embeddings_dirty' = TRUE
    /\ inserted' = <<>>
    /\ last' = Call("idle")
    /\ UNCHANGED << adding, graph_vars, signal_vars, max_documents, hybrid_enabled >>

\* matcher.pinned_documents = [...]; matcher.pinned_recommendations = [...]
SetPinned(playbook) ==
    /\ last.op # "get_memories"
    /\ pinned_documents' = Firsts(playbook)
    /\ pinned_recommendations' = Seconds(playbook)
    /\ last' = Call("idle")
    /\ UNCHANGED << adding, graph_vars, signal_vars, max_documents, documents, recommendations, bm25,
                    doc_embeddings, embeddings_dirty, hybrid_enabled, inserted >>

\* a variant of get_memories whose time weighting stays behind in the index:
\* a call with a reference date leaves every idf three times as large
RetrieveBoostsIndex(current_situation, reference_date, net) ==
    /\ last.op # "get_memories"
    /\ \E s \in { Scores(Store, current_situation, reference_date, net) } :
       \E n_matches \in KChoices :
       \E r \in { TopMatches(Store, s, n_matches) } :
        /\ doc_embeddings' = r.emb
        /\ embeddings_dirty' = r.dirty
        /\ last' = [op |-> "get_memories", query |-> current_situation,
                    k |-> n_matches, ref |-> reference_date,
                    outcome |-> r.outcome, error |-> r.error, result |-> r.result,
                    fused |-> r.fused, scores |-> r.scores,
                    top_indices |-> r.top_indices,
                    corpus_fetch |-> r.corpus_fetch, query_fetch |-> r.query_fetch,
                    corpus_requests |-> r.corpus_requests,
                    query_requests |-> r.query_requests,
                    use_hybrid |-> r.use_hybrid]
        /\ bm25' = IF reference_date = NoDate THEN bm25
                   ELSE [bm25 EXCEPT !.idf = [t \in DOMAIN bm25.idf |-> 3 * bm25.idf[t]]]
        /\ UNCHANGED << adding, graph_vars, signal_vars, max_documents, documents, recommendations,
                        pinned_documents, pinned_recommendations,
                        hybrid_enabled, inserted >>

\* get_memories(current_situation, n_matches, reference_date), the backend
\* answering net
Retrieve(current_situation, reference_date, net) ==
    /\ last.op # "get_memories"
    /\ \E s \in { Scores(Store, current_situation, reference_date, net) } :
       \E n_matches \in KChoices :
       \E r \in { TopMatches(Store, s, n_matches) } :
        /\ doc_embeddings' = r.emb
        /\ embeddings_dirty' = r.dirty
        /\ last' = [op |-> "get_memories", query |-> current_situation,
                    k |-> n_matches, ref |-> reference_date,
                    outcome |-> r.outcome, error |-> r.error, result |-> r.result,
                    fused |-> r.fused, scores |-> r.scores,
                    top_indices |-> r.top_indices,
                    corpus_fetch |-> r.corpus_fetch, query_fetch |-> r.query_fetch,
                    corpus_requests |-> r.corpus_requests,
                    query_requests |-> r.query_requests,
                    use_hybrid |-> r.use_hybrid]
        /\ UNCHANGED << adding, graph_vars, signal_vars, max_documents, documents, recommendations,
                        pinned_documents, pinned_recommendations, bm25,
                        hybrid_enabled, inserted >>

\* the caller takes the result: the history of the call is dropped
Return ==
    /\ last.op = "get_memories"
    /\ last' = Call("idle")
    /\ UNCHANGED << adding, graph_vars, signal_vars, max_documents, documents, recommendations, pinned_documents,
                    pinned_recommendations, bm25, doc_embeddings,
                    embeddings_dirty, hybrid_enabled, inserted >>

\* what the embedding backend answers to the request for the corpus and to the
\* request for the query; a store with hybrid search off sends no request
Backend ==
    IF hybrid_enabled
    THEN [corpus : BOOLEAN, query : BOOLEAN]
    ELSE { [corpus |-> FALSE, query |-> FALSE] }

Next ==
    \/ \E b \in Batches : AddSituations(b)
    \/ \E include_pinned \in BOOLEAN : Clear(include_pinned)
    \/ \E playbook \in PinnedChoices : SetPinned(playbook)
    \/ \E q \in Queries, ref \in RefDates, net \in Backend : Retrieve(q, ref, net)
    \/ Return

Spec == Init /\ [][Next]_vars

\* ------------------------------------------------------------------ claims
Min(a, b) == IF a <= b THEN a ELSE b
Returned == last.op = "get_memories" /\ last.outcome = "return"

\* C1: with a cap M > 0, after T pairs inserted since the last clear the
\* regular tier holds exactly min(T, M) entries, and they are the most
\* recently inserted pairs in insertion order
C1_FifoEviction ==
    max_documents > 0 =>
        LET T == Len(inserted)
            n == Min(T, max_documents)
        IN  /\ Len(documents) = n
            /\ Len(recommendations) = n
            /\ \A i \in 1..n :
                   << documents[i], recommendations[i] >> = inserted[T - n + i]

\* C1 witness: a capped store that has evicted its oldest entry
C1_Evicted ==
    /\ max_documents > 0
    /\ Len(inserted) > max_documents
    /\ Len(documents) = max_documents

\* C2: the situation list and the recommendation list have the same length,
\* entry i of one was inserted together with entry i of the other, and every
\* returned entry carries the recommendation stored at its own position
C2_Paired ==
    /\ Len(documents) = Len(recommendations)
    /\ Len(documents) <= Len(inserted)
    /\ \A i \in 1..Len(documents) :
           << documents[i], recommendations[i] >>
               = inserted[Len(inserted) - Len(documents) + i]
    /\ Returned =>
           LET np == Len(pinned_documents)
               pair(i) == IF i <= np
                          THEN << pinned_documents[i], pinned_recommendations[i] >>
                          ELSE << documents[i - np], recommendations[i - np] >>
           IN  /\ Len(last.result) = Len(last.top_indices)
               /\ \A p \in 1..Len(last.result) :
                      << last.result[p].matched_situation,
                         last.result[p].recommendation >>
                          = pair(last.top_indices[p])

\* C2 witness: after an eviction, a retrieve returned a pinned entry and a
\* regular entry
C2_ReturnedBothTiers ==
    /\ Returned
    /\ Len(inserted) > Len(documents)
    /\ \E p, q \in 1..Len(last.result) :
           /\ last.top_indices[p] <= Len(pinned_documents)
           /\ last.top_indices[q] > Len(pinned_documents)

\* C3: at every retrieve the lexical index covers exactly the current corpus,
\* the pinned entries first and then the regular entries
C3_IndexCoversCorpus ==
    last.op = "get_memories" =>
        bm25.docs = [i \in 1..Len(AllDocs(Store)) |-> Tokenize(AllDocs(Store)[i])]

\* C4: a retrieve always returns a sequence of results; it never ends in an
\* error
C4_NeverRaises == last.op = "get_memories" => last.outcome = "return"

\* C5: with hybrid search on, a retrieve during which the fetch of the corpus
\* embeddings or of the query embedding fails ends exactly as the same call
\* ends on the same store with hybrid search off; and scores are fused only
\* when hybrid search is on, the corpus matrix is present and the query
\* embedding was fetched
C5_FallbackIsLexical ==
    /\ last.op = "get_memories" /\ hybrid_enabled
          /\ (last.corpus_fetch = "failed" \/ last.query_fetch = "failed") =>
           LET lexical == GetMemories([Store EXCEPT !.hybrid_enabled = FALSE],
                                      last.query, last.k, last.ref,
                                      [corpus |-> FALSE, query |-> FALSE])
           IN  /\ last.outcome = lexical.outcome
               /\ last.error = lexical.error
               /\ last.result = lexical.result
    /\ last.op = "get_memories" /\ last.use_hybrid =>
           /\ hybrid_enabled
           /\ doc_embeddings # NoMatrix
           /\ last.query_fetch = "ok"

\* C5 witness: a hybrid retrieve with a failed fetch returned two results
C5_FellBack ==
    /\ Returned /\ hybrid_enabled
    /\ last.corpus_fetch = "failed" \/ last.query_fetch = "failed"
    /\ Len(last.result) >= 2

\* C6: after a retrieve whose corpus-embedding fetch failed the cache is still
\* dirty, so the next hybrid retrieve asks the backend for the corpus again
C6_FailedFetchStaysDirty ==
    last.op = "get_memories" /\ last.corpus_fetch = "failed" =>
        /\ embeddings_dirty
        /\ \A net \in Backend :
               GetMemories(Store, last.query, last.k, last.ref, net).corpus_fetch
                   # "none"

\* C7: the similarity scores of a returned sequence never increase, and the
\* sequence is no longer than k and no longer than the corpus
C7_SortedAndBounded ==
    Returned =>
        /\ \A p \in 1..(Len(last.result) - 1) :
               last.result[p].similarity_score >= last.result[p + 1].similarity_score
        /\ Len(last.result) <= last.k
        /\ Len(last.result) <= Len(AllDocs(Store))

\* the tier of corpus position i at the last retrieve: 4 pinned, 3 a regular
\* document aged at most 7 days, 2 aged 8 to 30 days, 1 older or without a date
Tier(i) ==
    IF i <= Len(pinned_documents) THEN 4
    ELSE LET d == AllDocs(Store)[i].date
         IN  IF d = <<>> THEN 1
             ELSE LET age == ToOrdinal(last.ref)
                               - ToOrdinal(Date(Num(d[1]), Num(d[2]), Num(d[3])))
                  IN  IF age <= 7 THEN 3 ELSE IF age <= 30 THEN 2 ELSE 1

\* C8: with a reference date, of two returned documents with the same score
\* before the boost the one of the higher tier comes first: pinned, then
\* regular aged at most 7 days, then 8 to 30 days, then older or undated
C8_TierOrder ==
    Returned /\ last.ref # NoDate =>
        \A p, q \in 1..Len(last.result) :
            LET i == last.top_indices[p]
                j == last.top_indices[q]
            IN  last.fused[i] = last.fused[j] /\ Tier(i) > Tier(j) => p < q

\* the retrieve of the last call made once more, with the backend answering net
Again(net) == GetMemories(Store, last.query, last.k, last.ref, net)
SameAsLast(r) ==
    /\ r.outcome = last.outcome
    /\ r.error = last.error
    /\ r.result = last.result

\* C9 as stated: the same retrieve made twice in a row, nothing in between,
\* ends the same way both times whatever the backend answers
C9_Idempotent ==
    last.op = "get_memories" =>
        \A net \in Backend : SameAsLast(Again(net))

\* C9: the same retrieve made twice in a row ends the same way both times,
\* unless hybrid search is on, the corpus matrix is cached, and the query
\* embedding is fetched in one of the two calls and not in the other
C9_IdempotentSameQueryFetch ==
    last.op = "get_memories" =>
        \A net \in Backend :
            \/ /\ hybrid_enabled
               /\ doc_embeddings # NoMatrix
               /\ (last.query_fetch = "ok") # net.query
            \/ SameAsLast(Again(net))

\* C9 witness: a hybrid retrieve fused the scores and returned two results
C9_FusedCall ==
    /\ Returned /\ last.use_hybrid
    /\ Len(last.result) >= 2

\* C10: a store is never created with a negative cap, and a retrieve with
\* k <= 0 is rejected with a validation error
C10_Validated ==
    /\ max_documents >= 0
    /\ last.op = "get_memories" /\ last.k <= 0 =>
           last.outcome = "raise" /\ last.error = "ValidationError"

\* the index was built from the documents the corpus holds now
IndexInStep == Len(bm25.docs) = Len(AllDocs(Store))

\* C11: a regular document whose date token has the digit shape but names no
\* calendar date counts as undated: a retrieve with a reference date returns,
\* and the score of that document is multiplied by 1
C11_BadDateIsNoDate ==
    /\ last.op = "get_memories" /\ last.ref # NoDate /\ IndexInStep
    /\ \E i \in 1..Len(documents) : ExtractDateRaises(documents[i])
    => /\ last.outcome = "return"
       /\ \A i \in 1..Len(documents) :
              ExtractDateRaises(documents[i]) =>
                  LET p == Len(pinned_documents) + i
                  IN  last.scores[p] = last.fused[p]


\* C12: a retrieve on a store without pinned and without regular entries
\* returns the empty sequence, whatever the query, k and reference date, and
\* sends no request to the embedding backend
C12_EmptyCorpusReturnsNothing ==
    last.op = "get_memories" /\ pinned_documents = <<>> /\ documents = <<>> =>
        /\ last.outcome = "return"
        /\ last.result = <<>>
        /\ last.corpus_fetch = "none"
        /\ last.query_fetch = "none"

\* C12 witness: a retrieve with k = 1 and a reference date on an empty hybrid
\* store
C12_RetrievedFromEmpty ==
    /\ last.op = "get_memories" /\ last.k = 1 /\ last.ref # NoDate
    /\ pinned_documents = <<>> /\ documents = <<>>
    /\ hybrid_enabled


\* the tokens of the last query occur in no document of the corpus
NoSharedToken ==
    \A i \in 1..Len(AllDocs(Store)) :
        \A t \in 1..Len(Tokenize(last.query)) :
            Count(Tokenize(last.query)[t], Tokenize(AllDocs(Store)[i])) = 0

\* C13: with hybrid search off and a corpus of N >= 1 documents, a query that
\* shares no token with any document returns exactly min(k, N) results, all
\* with similarity 0, in corpus order
C13_NoMatchZeroScores ==
    /\ last.op = "get_memories" /\ ~hybrid_enabled
    /\ AllDocs(Store) # <<>> /\ NoSharedToken
    => /\ last.outcome = "return"
       /\ Len(last.result) = Min(last.k, Len(AllDocs(Store)))
       /\ \A p \in 1..Len(last.result) :
              /\ last.result[p].similarity_score = 0
              /\ last.result[p].matched_situation = AllDocs(Store)[p]
              /\ last.result[p].recommendation = AllRecs(Store)[p]


\* C14: clear(include_pinned = false) empties the regular tier and keeps the
\* pinned lists, and a retrieve right after it returns pinned entries scored
\* by an index of the pinned documents; clear(include_pinned = true) empties
\* both tiers; either way the index is rebuilt from what is left (or dropped)
\* and the embedding cache is dropped, so neither is used again
C14_ClearFrame ==
    [][\A include_pinned \in BOOLEAN :
          Clear(include_pinned) =>
              /\ documents' = <<>> /\ recommendations' = <<>>
              /\ pinned_documents' = (IF include_pinned THEN <<>> ELSE pinned_documents)
              /\ pinned_recommendations' =
                     (IF include_pinned THEN <<>> ELSE pinned_recommendations)
              /\ bm25' = RebuildIndex(pinned_documents', <<>>)
              /\ doc_embeddings' = NoMatrix
              /\ embeddings_dirty'
              /\ \A q \in Queries, k \in 1..MaxK, ref \in RefDates, net \in Backend :
                     \A r \in { GetMemories(Store', q, k, ref, net) } :
                         /\ r.outcome = "return"
                         /\ Len(r.result) = Min(k, Len(pinned_documents'))
                         /\ \A p \in 1..Len(r.result) :
                                \E i \in 1..Len(pinned_documents') :
                                    /\ r.result[p].matched_situation = pinned_documents'[i]
                                    /\ r.result[p].recommendation = pinned_recommendations'[i]
    ]_vars

\* C14 witness: with the regular tier empty and nothing inserted since the
\* last clear, a retrieve returned both pinned entries
C14_PinnedAfterClear ==
    /\ Returned /\ documents = <<>> /\ inserted = <<>>
    /\ Len(pinned_documents) = 2 /\ Len(last.result) = 2


\* C15: add_situations, eviction included, leaves the pinned documents and
\* the pinned recommendations as they were, whatever the cap and the batch;
\* the cap does not bound the number of pinned entries
C15_AddKeepsPinned ==
    [][last'.op = "idle" /\ Len(inserted') >= Len(inserted)
          /\ AddSituations(SubSeq(inserted', Len(inserted) + 1, Len(inserted'))) =>
              /\ pinned_documents' = pinned_documents
              /\ pinned_recommendations' = pinned_recommendations
              /\ max_documents > 0 => Len(documents') <= max_documents
    ]_vars

\* C15 witness: a store capped at one regular entry has evicted and still
\* holds its two pinned entries
C15_PinnedAboveCap ==
    /\ max_documents = 1 /\ Len(inserted) = 2 /\ Len(documents) = 1
    /\ Len(pinned_documents) = 2


\* C16: a store with max_documents = 0 never evicts: its regular tier holds
\* every pair inserted since the last clear, in insertion order
C16_ZeroMeansUnlimited ==
    max_documents = 0 =>
        /\ documents = Firsts(inserted)
        /\ recommendations = Seconds(inserted)

\* C16 witness: a store with max_documents = 0 holds as many pairs as the
\* bound on insertions allows
C16_UncappedFull ==
    max_documents = 0 /\ Len(inserted) = MaxInserted /\ Len(documents) = MaxInserted


\* a step that is one call of get_memories on a hybrid store whose corpus and
\* index are not empty
HybridRetrieveStep ==
    /\ last.op = "idle" /\ last'.op = "get_memories"
    /\ hybrid_enabled /\ ~EmptyCorpus(Store)

\* C17: the corpus embeddings are requested by the first hybrid retrieve that
\* finds the cache dirty and by no retrieve after it until a mutation marks
\* the cache dirty again, whether that request succeeded or failed; a cached
\* matrix is reused unchanged; the query embedding is requested on every
\* retrieve that has a corpus matrix
C17_CorpusFetchedOncePerCycle ==
    [][HybridRetrieveStep =>
          /\ embeddings_dirty => last'.corpus_fetch # "none"
          /\ ~embeddings_dirty =>
                 last'.corpus_fetch = "none" /\ doc_embeddings' = doc_embeddings
          /\ ~embeddings_dirty'
          /\ doc_embeddings' # NoMatrix => last'.query_fetch # "none"
    ]_vars

\* C17 witness: a retrieve sent no corpus request, fetched the query embedding
\* and fused the scores with the cached matrix
C17_ReusedMatrix ==
    /\ last.op = "get_memories" /\ last.use_hybrid
    /\ last.corpus_fetch = "none" /\ last.query_fetch = "ok"


\* C18: one retrieve sends at most one request for the corpus embeddings and
\* at most one for the query embedding, a failed request is not sent again,
\* and without a corpus matrix no request for the query embedding is sent
C18_NoRetryWithinCall ==
    last.op = "get_memories" =>
        /\ last.corpus_requests <= 1
        /\ last.query_requests <= 1
        /\ last.corpus_fetch = "failed" =>
               last.corpus_requests = 1 /\ doc_embeddings = NoMatrix
        /\ last.query_fetch = "failed" => last.query_requests = 1
        /\ doc_embeddings = NoMatrix =>
               last.query_requests = 0 /\ last.query_fetch = "none"

\* C18 witness: a retrieve fetched the corpus embeddings and then failed to
\* fetch the query embedding
C18_QueryFetchFailed ==
    /\ last.op = "get_memories"
    /\ last.corpus_fetch = "ok" /\ last.query_fetch = "failed"


\* the rows of the cached matrix for the regular tier are the embeddings of
\* the regular documents the store holds now
MatrixCoversRegular ==
    /\ Len(doc_embeddings) >= Len(documents)
    /\ \A i \in 1..Len(documents) :
           doc_embeddings[Len(doc_embeddings) - Len(documents) + i]
               = Embed(documents[i])

\* C19: every add_situations step and every clear step leaves the embedding
\* cache dirty, and a retrieve that fuses scores uses a matrix fetched after
\* the last such step: its rows for the regular tier are the embeddings of
\* the regular documents as that step left them
C19_MutationMarksDirty ==
    /\ [][/\ last'.op = "idle" /\ Len(inserted') >= Len(inserted)
             /\ AddSituations(SubSeq(inserted', Len(inserted) + 1, Len(inserted')))
             => embeddings_dirty']_vars
    /\ [][(\E include_pinned \in BOOLEAN : Clear(include_pinned))
             => embeddings_dirty' /\ doc_embeddings' = NoMatrix]_vars
    /\ [](last.op = "get_memories" /\ last.use_hybrid => MatrixCoversRegular)

\* C19 witness: after an insertion that evicted, a retrieve fetched the corpus
\* embeddings again and fused the scores
C19_RefetchedAfterEviction ==
    /\ last.op = "get_memories" /\ last.use_hybrid /\ last.corpus_fetch = "ok"
    /\ max_documents = 1 /\ Len(inserted) = 2


\* ------------------------------------------------- the multiplier, by age
\* regular documents of one wording dated 3 days after the reference date
\* 2024-03-15, on it, and 7, 8, 30 and 31 days before it, and one undated
MaxDated == 2

DatedTexts ==
    { Txt(<<"BTC", "drop">>, <<"2024", "03", "18">>),
      Txt(<<"BTC", "drop">>, <<"2024", "03", "15">>),
      Txt(<<"BTC", "drop">>, <<"2024", "03", "08">>),
      Txt(<<"BTC", "drop">>, <<"2024", "03", "07">>),
      Txt(<<"BTC", "drop">>, <<"2024", "02", "14">>),
      Txt(<<"BTC", "drop">>, <<"2024", "02", "13">>),
      Txt(<<"BTC", "drop">>, <<>>) }

\* a playbook rule of the query's wording that carries a date 60 days
\* before the reference date
PlayDated == Txt(<<"BTC", "drop", "pinned">>, <<"2024", "01", "15">>)

\* a lexical store after the pinned lists were assigned and one batch of
\* dated documents was added
InitWeights ==
    /\ adding = NotAdding
    /\ GraphIdle
    /\ SignalIdle
    /\ max_documents = 0
    /\ hybrid_enabled = FALSE
    /\ \E playbook \in { <<>>, << <<PlayDated, "PINNED">> >> } :
          /\ pinned_documents = Firsts(playbook)
          /\ pinned_recommendations = Seconds(playbook)
    /\ \E n \in 1..MaxDated : \E docs \in [1..n -> DatedTexts] :
          /\ documents = docs
          /\ recommendations = [i \in 1..n |-> "rec"]
          /\ inserted = [i \in 1..n |-> << docs[i], "rec" >>]
    /\ bm25 = RebuildIndex(pinned_documents, documents)
    /\ doc_embeddings = NoMatrix
    /\ embeddings_dirty = TRUE
    /\ last = Call("idle")

NextWeights ==
    \/ \E q \in Queries, ref \in RefDates, net \in Backend : Retrieve(q, ref, net)
    \/ Return

SpecWeights == InitWeights /\ [][NextWeights]_vars

\* the multiplier the claim gives to corpus position i at the last retrieve
Multiplier(i) == IF last.ref = NoDate THEN 1 ELSE Tier(i)

\* C20: the score of every document is its score before the boost times 1
\* when no reference date is given, and otherwise times 4 for a pinned
\* document, 3 for a regular one aged at most 7 days (a negative age
\* included), 2 for one aged 8 to 30 days, 1 for one older or undated
C20_Multiplier ==
    Returned =>
        \A i \in 1..Len(last.scores) :
            last.scores[i] = last.fused[i] * Multiplier(i)

\* C20 witness: with a reference date, a pinned document that carries a date
\* got 4 and a regular document dated after the reference date got 3, both
\* on a score that is not 0
C20_FutureDatedBoosted ==
    /\ Returned /\ last.ref # NoDate
    /\ pinned_documents = <<PlayDated>>
    /\ last.fused[1] # 0 /\ last.scores[1] = 4 * last.fused[1]
    /\ \E i \in 2..Len(last.scores) :
           /\ AllDocs(Store)[i].date = <<"2024", "03", "18">>
           /\ last.fused[i] # 0 /\ last.scores[i] = 3 * last.fused[i]


\* ------------------------------------------------------------ normalisation
\* C21: every returned similarity_score is the final score of its document
\* divided by the largest final score of the whole scored corpus, and is 0
\* when that largest score is not positive
C21_NormalizedByGlobalMax ==
    Returned =>
        \A p \in 1..Len(last.result) :
            last.result[p].similarity_score =
                IF MaxSeq(last.scores) > 0
                THEN Div(last.scores[last.top_indices[p]] * Scale, MaxSeq(last.scores))
                ELSE 0


\* C22: when a retrieve with k >= 1 returns results, the first one is a
\* document whose final score is the largest of the whole scored corpus, its
\* similarity_score is exactly 1 when that largest score is positive, and no
\* returned similarity_score is above 1
C22_TopIsGlobalMax ==
    Returned /\ last.k >= 1 /\ last.result # <<>> =>
        /\ last.scores[last.top_indices[1]] = MaxSeq(last.scores)
        /\ MaxSeq(last.scores) > 0 => last.result[1].similarity_score = Scale
        /\ \A p \in 1..Len(last.result) : last.result[p].similarity_score <= Scale

\* C22 witness: two results came back, the first with similarity 1 and the
\* second with a smaller positive one, from a corpus of more than two
C22_TopOfSeveral ==
    /\ Returned /\ last.k = 2 /\ Len(last.result) = 2 /\ Len(last.scores) > 2
    /\ last.result[1].similarity_score = Scale
    /\ last.result[2].similarity_score > 0
    /\ last.result[2].similarity_score < Scale


\* the corpus positions the last retrieve selected
Selected == { last.top_indices[p] : p \in 1..Len(last.top_indices) }

\* C23: of two documents with the same final score the one at the smaller
\* corpus position comes first in the result, and when only one of them is
\* returned it is the one at the smaller position
C23_TiesInCorpusOrder ==
    Returned =>
        /\ \A p, q \in 1..Len(last.top_indices) :
               LET i == last.top_indices[p]
                   j == last.top_indices[q]
               IN  last.scores[i] = last.scores[j] /\ i < j => p < q
        /\ \A i \in Selected : \A j \in (1..Len(last.scores)) \ Selected :
               last.scores[i] = last.scores[j] => i < j

\* C23 witness: k = 1 cut a tie between two documents that matched the query,
\* and the one at the smaller position was returned
C23_TieCutByK ==
    /\ Returned /\ last.k = 1 /\ Len(last.result) = 1
    /\ last.scores[last.top_indices[1]] # 0
    /\ \E j \in 1..Len(last.scores) :
           /\ j > last.top_indices[1]
           /\ last.scores[j] = last.scores[last.top_indices[1]]


\* -------------------------------------------------------------- read-only
\* C24: a retrieve leaves both tiers, the lexical index, max_documents and the
\* hybrid switch as they were (only the embedding cache and its dirty flag may
\* change), and after a call with a reference date the lexical scores of the
\* next call on any query are the ones the store gave before it, unweighted
C24_RetrieveReadOnly ==
    [][last'.op = "get_memories" =>
          /\ UNCHANGED << pinned_documents, pinned_recommendations, documents,
                          recommendations, bm25, max_documents, hybrid_enabled >>
          /\ last'.ref # NoDate =>
                 \A q \in Queries :
                     GetScores(bm25', Tokenize(q)) = GetScores(bm25, Tokenize(q))]_vars

\* C24 witness: a retrieve with a reference date boosted a score and filled
\* the embedding cache
C24_BoostedAndCached ==
    /\ Returned /\ last.ref # NoDate /\ last.corpus_fetch = "ok"
    /\ doc_embeddings # NoMatrix /\ ~embeddings_dirty
    /\ \E i \in 1..Len(last.scores) :
           last.fused[i] # 0 /\ last.scores[i] # last.fused[i]


\* ------------------------------------------- add_situations in another thread
\* add_situations(situations_and_advice) is called: nothing is written yet
AddStart(situations_and_advice) ==
    /\ adding.pc = "idle"
    /\ Len(inserted) + Len(situations_and_advice) <= MaxInserted
    /\ adding' = [pc |-> IF situations_and_advice = <<>> THEN "cap" ELSE "doc",
                  rest |-> situations_and_advice, excess |-> 0]
    /\ inserted' = inserted \o situations_and_advice
    /\ UNCHANGED << max_documents, documents, recommendations, pinned_documents,
                    pinned_recommendations, bm25, doc_embeddings,
                    embeddings_dirty, hybrid_enabled, last, graph_vars, signal_vars >>

\* self.documents.append(situation)
AppendDocument ==
    /\ adding.pc = "doc"
    /\ documents' = Append(documents, adding.rest[1][1])
    /\ adding' = [adding EXCEPT !.pc = "rec"]
    /\ UNCHANGED << max_documents, recommendations, pinned_documents,
                    pinned_recommendations, bm25, doc_embeddings,
                    embeddings_dirty, hybrid_enabled, inserted, last,
                    graph_vars, signal_vars >>

\* self.recommendations.append(recommendation), and the loop's next round
AppendRecommendation ==
    /\ adding.pc = "rec"
    /\ recommendations' = Append(recommendations, adding.rest[1][2])
    /\ adding' = [adding EXCEPT !.rest = Tail(adding.rest),
                                !.pc = IF Len(adding.rest) = 1 THEN "cap" ELSE "doc"]
    /\ UNCHANGED << max_documents, documents, pinned_documents,
                    pinned_recommendations, bm25, doc_embeddings,
                    embeddings_dirty, hybrid_enabled, inserted, last,
                    graph_vars, signal_vars >>

\* the cap test, excess, and self.documents = self.documents[excess:]
EvictDocuments ==
    /\ adding.pc = "cap"
    /\ \E excess \in { Excess(documents, max_documents) } :
          /\ documents' = DropFirst(documents, excess)
          /\ adding' = [adding EXCEPT !.excess = excess,
                                      !.pc = IF excess > 0 THEN "evict" ELSE "rebuild"]
    /\ UNCHANGED << max_documents, recommendations, pinned_documents,
                    pinned_recommendations, bm25, doc_embeddings,
                    embeddings_dirty, hybrid_enabled, inserted, last,
                    graph_vars, signal_vars >>

\* self.recommendations = self.recommendations[excess:]
EvictRecommendations ==
    /\ adding.pc = "evict"
    /\ recommendations' = DropFirst(recommendations, adding.excess)
    /\ adding' = [adding EXCEPT !.pc = "rebuild"]
    /\ UNCHANGED << max_documents, documents, pinned_documents,
                    pinned_recommendations, bm25, doc_embeddings,
                    embeddings_dirty, hybrid_enabled, inserted, last,
                    graph_vars, signal_vars >>

\* self._rebuild_index(), and add_situations returns
Rebuild ==
    /\ adding.pc = "rebuild"
    /\ bm25' = RebuildIndex(pinned_documents, documents)
    /\ embeddings_dirty' = TRUE
    /\ adding' = NotAdding
    /\ UNCHANGED << max_documents, documents, recommendations, pinned_documents,
                    pinned_recommendations, doc_embeddings, hybrid_enabled,
                    inserted, last, graph_vars, signal_vars >>

\* one thread runs add_situations statement by statement while another calls
\* get_memories on the same store; nothing in the class orders the two
NextConcurrent ==
    \/ \E b \in Batches : AddStart(b)
    \/ AppendDocument
    \/ AppendRecommendation
    \/ EvictDocuments
    \/ EvictRecommendations
    \/ Rebuild
    \/ \E q \in Queries, ref \in RefDates, net \in Backend : Retrieve(q, ref, net)
    \/ Return

SpecConcurrent == Init /\ [][NextConcurrent]_vars

\* C25: a retrieve that scores does so with a lexical index built from the
\* pinned + regular lists as they are when it reads them, also while an
\* add_situations runs in another thread
C25_NoMidMutationRead ==
    [][last'.op = "get_memories" /\ ~EmptyCorpus(Store) =>
          bm25.docs = [i \in 1..Len(AllDocs(Store)) |-> Tokenize(AllDocs(Store)[i])]]_vars


\* C27: on a store with hybrid search off a retrieve sends no request to the
\* embedding backend, for the corpus or for the query, and leaves the
\* embedding cache and its dirty flag as they were
C27_LexicalOnlyAsksNothing ==
    [][last'.op = "get_memories" /\ ~hybrid_enabled =>
          /\ last'.corpus_requests = 0 /\ last'.query_requests = 0
          /\ last'.corpus_fetch = "none" /\ last'.query_fetch = "none"
          /\ UNCHANGED << doc_embeddings, embeddings_dirty >>]_vars

\* C27 witness: a store with hybrid search off, its cache dirty after an
\* insertion, returned results from a retrieve
C27_LexicalRetrieve ==
    /\ Returned /\ ~hybrid_enabled /\ last.result # <<>>
    /\ embeddings_dirty /\ doc_embeddings = NoMatrix


\* --------------------------------------------------------- process_signal
\* the longest LLM answer, in words
MaxWords == 2

_CRYPTO_SIGNALS == { "BUY", "SELL", "HOLD", "CLOSE_LONG", "CLOSE_SHORT", "ADD" }
_STOCK_SIGNALS == { "BUY", "SELL", "HOLD" }

\* an LLM answer is the sequence of its words (maximal runs of [A-Za-z0-9_]);
\* "buy", "BUYING", "BUY_NOW" and "CLOSE" are words that hold a signal's letters
\* without being one
Words == _CRYPTO_SIGNALS \cup { "buy", "BUYING", "BUY_NOW", "CLOSE" }
Answers == UNION { [1..n -> Words] : n \in 0..MaxWords }

MarketTypes == { "crypto", "us", "tw" }
Directions == { "pyramid_long", "pyramid_short", "long", "short", "" }

\* _SIGNAL_RE.search(raw): the position of the first word that is one of the
\* six alternatives, between word boundaries; 0 for no match
_SIGNAL_RE(raw) ==
    LET hits == { i \in 1..Len(raw) :
                    raw[i] \in { "ADD", "BUY", "SELL", "HOLD", "CLOSE_LONG", "CLOSE_SHORT" } }
    IN  IF hits = {} THEN 0 ELSE CHOOSE i \in hits : \A j \in hits : i <= j

\* the if/elif chain of process_signal
allowed(market_type, suggested_direction) ==
    IF suggested_direction = "pyramid_long" THEN { "ADD", "HOLD", "CLOSE_LONG" }
    ELSE IF suggested_direction = "pyramid_short" THEN { "ADD", "HOLD", "CLOSE_SHORT" }
    ELSE IF suggested_direction = "long" THEN { "BUY", "HOLD" }
    ELSE IF suggested_direction = "short" THEN { "SELL", "HOLD" }
    ELSE IF market_type = "crypto" THEN _CRYPTO_SIGNALS
    ELSE _STOCK_SIGNALS

\* a variant that returns the first word of the answer that is allowed
process_signal_any_allowed(raw, market_type, suggested_direction) ==
    LET hits == { i \in 1..Len(raw) : raw[i] \in allowed(market_type, suggested_direction) }
    IN  IF hits = {} THEN "HOLD" ELSE raw[CHOOSE i \in hits : \A j \in hits : i <= j]

\* what process_signal returns when the LLM answers raw
process_signal(raw, market_type, suggested_direction) ==
    LET match == _SIGNAL_RE(raw)
    IN  IF match # 0 /\ raw[match] \in allowed(market_type, suggested_direction)
        THEN raw[match]
        ELSE "HOLD"

\* process_signal is called in some mode and the LLM answers raw; nothing is
\* returned yet
InitSignal ==
    /\ adding = NotAdding
    /\ GraphIdle
    /\ FreshStore([max_documents |-> 0, hybrid_search |-> FALSE])
    /\ \E raw \in Answers, market_type \in MarketTypes,
          suggested_direction \in Directions :
          signal = SignalCall(raw, market_type, suggested_direction, "")

\* the call returns
ProcessSignal ==
    /\ signal.market_type # "" /\ signal.result = ""
    /\ signal' = [signal EXCEPT !.result =
                     process_signal(signal.raw, signal.market_type,
                                    signal.suggested_direction)]
    /\ UNCHANGED << memory_vars, adding, graph_vars >>

NextSignal == ProcessSignal

SpecSignal == InitSignal /\ [][NextSignal]_vars

\* the signals the claim allows in each mode
ModeSignals ==
    CASE signal.suggested_direction = "pyramid_long" -> { "ADD", "HOLD", "CLOSE_LONG" }
      [] signal.suggested_direction = "pyramid_short" -> { "ADD", "HOLD", "CLOSE_SHORT" }
      [] signal.suggested_direction = "long" -> { "BUY", "HOLD" }
      [] signal.suggested_direction = "short" -> { "SELL", "HOLD" }
      [] signal.suggested_direction = "" /\ signal.market_type = "crypto" ->
             { "BUY", "SELL", "HOLD", "CLOSE_LONG", "CLOSE_SHORT", "ADD" }
      [] OTHER -> { "BUY", "SELL", "HOLD" }

\* the signal words of the last answer, in order
SignalWords == SelectSeq(signal.raw, LAMBDA w : w \in _CRYPTO_SIGNALS)

MaxRuns == 4

\* d.get(key, default)
Get(d, key, default) == IF key \in DOMAIN d THEN d[key] ELSE default

\* the graph writes the keys a node returned into the state
Update(st, ret) ==
    [k \in DOMAIN st \cup DOMAIN ret |-> IF k \in DOMAIN ret THEN ret[k] ELSE st[k]]

\* what an LLM answers a debater or a researcher
Contents == { "c1", "c2" }

\* what an LLM answers the research manager or the trader
Plans == { "p1" }

\* f"{speaker}: {response.content}"
Argument(speaker, content) == << speaker, content >>

\* history + "\n" + argument
AddLine(history, argument) == history \o << "\n" >> \o argument

\* ------------------------------------------------- _parse_decision_fields
\* a decision text is the sequence of its lines, a line the pair of its
\* **label** and what follows it; a line without a label has label ""
patterns ==
    [decision |-> "**DECISION**", confidence |-> "**Confidence**",
     entry |-> "**Entry**", stop_loss |-> "**Stop-loss**",
     target1 |-> "**Target 1**", target2 |-> "**Target 2**",
     lessons |-> "**Lessons applied**"]

\* m.group(1).strip().replace(",", "")
Cleaned(value) == IF value = "1,000" THEN "1000" ELSE value

_parse_decision_fields(text) ==
    LET found == { key \in DOMAIN patterns :
                     \E i \in 1..Len(text) : text[i][1] = patterns[key] }
        first(key) == CHOOSE i \in 1..Len(text) :
                          /\ text[i][1] = patterns[key]
                          /\ \A j \in 1..(i - 1) : text[j][1] # patterns[key]
    IN  [key \in found |-> Cleaned(text[first(key)][2])]

\* ------------------------------------------------------ _validate_decision
\* float(s) raises ValueError
FloatRaises(s) == s = "1.2.3"
Float(s) ==
    CASE s = "0" -> 0      [] s = "70" -> 70    [] s = "90" -> 90
      [] s = "95" -> 95    [] s = "100" -> 100  [] s = "105" -> 105
      [] s = "110" -> 110  [] s = "120" -> 120  [] s = "1000" -> 1000

\* int(s) raises ValueError
IntRaises(s) == s \notin { "85", "150" }
IntOf(s) == CASE s = "85" -> 85 [] s = "150" -> 150

\* word in decision.upper()
Upper(s) == CASE s = "buy" -> "BUY" [] OTHER -> s
Mentions(decision, word) == Upper(decision) = word

Abs(x) == IF x < 0 THEN 0 - x ELSE x

\* the list of issues, each by the number of the check that raised it
_validate_decision(fields, market_type, suggested_direction, has_memory) ==
    LET price(key) == Get(fields, key, "0")
        bad == \E key \in { "entry", "stop_loss", "target1", "target2" } :
                   FloatRaises(price(key))
        entry == Float(price("entry"))
        sl == Float(price("stop_loss"))
        tp1 == Float(price("target1"))
        decision == Get(fields, "decision", "")
        max_sl == IF market_type \in { "us", "tw" } THEN 8 ELSE 20
        conf == Get(fields, "confidence", "")
        lessons == Get(fields, "lessons", "")
        when(c, issue) == IF c THEN << issue >> ELSE <<>>
    IN  IF DOMAIN fields = {} THEN <<>>
        ELSE IF bad THEN << "numbers" >>
        ELSE when(entry > 0 /\ sl > 0 /\ Abs(entry - sl) * 100 > max_sl * entry,
                  "sl_distance")
          \o when(\/ suggested_direction = "long" /\ Mentions(decision, "SELL")
                  \/ suggested_direction = "short" /\ Mentions(decision, "BUY"),
                  "direction")
          \o when(Mentions(decision, "BUY") /\ entry > 0 /\ sl > 0 /\ sl > entry,
                  "buy_sl")
          \o when(Mentions(decision, "BUY") /\ entry > 0 /\ tp1 > 0 /\ tp1 < entry,
                  "buy_tp1")
          \o when(Mentions(decision, "SELL") /\ entry > 0 /\ sl > 0 /\ sl < entry,
                  "sell_sl")
          \o when(Mentions(decision, "SELL") /\ entry > 0 /\ tp1 > 0 /\ tp1 > entry,
                  "sell_tp1")
          \o when(IF IntRaises(conf)
                  THEN Lower(conf) \notin { "high", "medium", "low" }
                  ELSE ~(0 <= IntOf(conf) /\ IntOf(conf) <= 100),
                  "confidence")
          \o when(has_memory /\ (lessons = "" \/ Lower(lessons) \in { "none", "n/a", "" }),
                  "lessons")

\* ------------------------------------------------------------- _self_refine
\* a variant that validates the refined text too and asks once more
_self_refine_twice(response_text, refined, market_type, suggested_direction, has_memory) ==
    LET issues == _validate_decision(_parse_decision_fields(response_text),
                                     market_type, suggested_direction, has_memory)
        again == _validate_decision(_parse_decision_fields(refined),
                                    market_type, suggested_direction, has_memory)
    IN  IF issues = <<>>
        THEN [content |-> response_text, llm_calls |-> 0, issues |-> issues]
        ELSE [content |-> refined,
              llm_calls |-> IF again = <<>> THEN 1 ELSE 2, issues |-> issues]

\* refined is what the LLM answers the refine prompt, were it asked
_self_refine(response_text, refined, market_type, suggested_direction, has_memory) ==
    LET issues == _validate_decision(_parse_decision_fields(response_text),
                                     market_type, suggested_direction, has_memory)
    IN  IF issues = <<>>
        THEN [content |-> response_text, llm_calls |-> 0, issues |-> issues]
        ELSE [content |-> refined, llm_calls |-> 1, issues |-> issues]

\* ---------------------------------------------------------- the node runs
TotalRuns ==
    runs["bull"] + runs["bear"] + runs["research_manager"] + runs["trader"]
      + runs["conservative"] + runs["neutral"] + runs["risk_manager"]

\* the graph is still running: no node raised, the risk manager (the last
\* node) has not run, and the run budget is not used up
Running ==
    /\ node.outcome # "raise"
    /\ node.name # "risk_manager"
    /\ TotalRuns < MaxRuns

\* the node returned ret after llm_calls calls
Completes(name, ret, run) ==
    /\ state' = Update(state, ret)
    /\ runs' = [runs EXCEPT ![name] = @ + 1]
    /\ node' = run
    /\ UNCHANGED << memory_vars, adding, signal_vars >>

\* the node raised KeyError(key): the graph stops, the state stays
Raises(run, key) ==
    /\ node' = [run EXCEPT !.outcome = "raise", !.error = key]
    /\ UNCHANGED << state, runs, memory_vars, adding, signal_vars >>

OneCall(name) == [NodeRun(name) EXCEPT !.llm_calls = 1]

\* bull_node
BullNode(content) ==
    /\ Running
    /\ LET investment_debate_state == state["investment_debate_state"]
           history == Get(investment_debate_state, "history", EmptyStr)
           bull_history == Get(investment_debate_state, "bull_history", EmptyStr)
           argument == Argument("Bull Analyst: ", content)
       IN  Completes("bull",
               [investment_debate_state |->
                   [history |-> AddLine(history, argument),
                    bull_history |-> AddLine(bull_history, argument),
                    bear_history |-> Get(investment_debate_state, "bear_history", EmptyStr),
                    current_response |-> argument,
                    count |-> investment_debate_state["count"] + 1]],
               OneCall("bull"))

\* bear_node
BearNode(content) ==
    /\ Running
    /\ LET investment_debate_state == state["investment_debate_state"]
           history == Get(investment_debate_state, "history", EmptyStr)
           bear_history == Get(investment_debate_state, "bear_history", EmptyStr)
           argument == Argument("Bear Analyst: ", content)
       IN  Completes("bear",
               [investment_debate_state |->
                   [history |-> AddLine(history, argument),
                    bear_history |-> AddLine(bear_history, argument),
                    bull_history |-> Get(investment_debate_state, "bull_history", EmptyStr),
                    current_response |-> argument,
                    count |-> investment_debate_state["count"] + 1]],
               OneCall("bear"))

\* a variant of research_manager_node that counts its own run as a debate turn
ResearchManagerNodeCounts(content) ==
    /\ Running
    /\ LET investment_debate_state == state["investment_debate_state"]
       IN  Completes("research_manager",
               [investment_debate_state |->
                   [judge_decision |-> << content >>,
                    history |-> Get(investment_debate_state, "history", EmptyStr),
                    bear_history |-> Get(investment_debate_state, "bear_history", EmptyStr),
                    bull_history |-> Get(investment_debate_state, "bull_history", EmptyStr),
                    current_response |-> << content >>,
                    count |-> investment_debate_state["count"] + 1],
                investment_plan |-> << content >>],
               OneCall("research_manager"))

\* research_manager_node
ResearchManagerNode(content) ==
    /\ Running
    /\ LET investment_debate_state == state["investment_debate_state"]
       IN  Completes("research_manager",
               [investment_debate_state |->
                   [judge_decision |-> << content >>,
                    history |-> Get(investment_debate_state, "history", EmptyStr),
                    bear_history |-> Get(investment_debate_state, "bear_history", EmptyStr),
                    bull_history |-> Get(investment_debate_state, "bull_history", EmptyStr),
                    current_response |-> << content >>,
                    count |-> investment_debate_state["count"]],
                investment_plan |-> << content >>],
               OneCall("research_manager"))

\* trader_node
TraderNode(content) ==
    /\ Running
    /\ IF "investment_plan" \notin DOMAIN state
       THEN Raises(NodeRun("trader"), "investment_plan")
       ELSE Completes("trader",
                [messages |-> Append(state["messages"], << "ai", content >>),
                 trader_investment_plan |-> << content >>,
                 sender |-> "Trader"],
                OneCall("trader"))

\* conservative_node
ConservativeNode(content) ==
    /\ Running
    /\ LET risk_debate_state == state["risk_debate_state"]
           history == Get(risk_debate_state, "history", EmptyStr)
           conservative_history == Get(risk_debate_state, "conservative_history", EmptyStr)
           argument == Argument("Conservative Analyst: ", content)
       IN  IF "trader_investment_plan" \notin DOMAIN state
           THEN Raises(NodeRun("conservative"), "trader_investment_plan")
           ELSE Completes("conservative",
                    [risk_debate_state |->
                        [history |-> AddLine(history, argument),
                         aggressive_history |-> Get(risk_debate_state, "aggressive_history", EmptyStr),
                         conservative_history |-> AddLine(conservative_history, argument),
                         neutral_history |-> Get(risk_debate_state, "neutral_history", EmptyStr),
                         latest_speaker |-> "Conservative",
                         current_aggressive_response |->
                             Get(risk_debate_state, "current_aggressive_response", EmptyStr),
                         current_conservative_response |-> argument,
                         current_neutral_response |->
                             Get(risk_debate_state, "current_neutral_response", EmptyStr),
                         count |-> risk_debate_state["count"] + 1]],
                    OneCall("conservative"))

\* neutral_node
NeutralNode(content) ==
    /\ Running
    /\ LET risk_debate_state == state["risk_debate_state"]
           history == Get(risk_debate_state, "history", EmptyStr)
           neutral_history == Get(risk_debate_state, "neutral_history", EmptyStr)
           argument == Argument("Neutral Analyst: ", content)
       IN  IF "trader_investment_plan" \notin DOMAIN state
           THEN Raises(NodeRun("neutral"), "trader_investment_plan")
           ELSE Completes("neutral",
                    [risk_debate_state |->
                        [history |-> AddLine(history, argument),
                         aggressive_history |-> Get(risk_debate_state, "aggressive_history", EmptyStr),
                         conservative_history |-> Get(risk_debate_state, "conservative_history", EmptyStr),
                         neutral_history |-> AddLine(neutral_history, argument),
                         latest_speaker |-> "Neutral",
                         current_aggressive_response |->
                             Get(risk_debate_state, "current_aggressive_response", EmptyStr),
                         current_conservative_response |->
                             Get(risk_debate_state, "current_conservative_response", EmptyStr),
                         current_neutral_response |-> argument,
                         count |-> risk_debate_state["count"] + 1]],
                    OneCall("neutral"))

\* the decision texts the LLM gives the risk manager
Decision(decision, confidence, entry, stop_loss, target1, lessons) ==
    << << "**DECISION**", decision >>, << "**Confidence**", confidence >>,
       << "**Entry**", entry >>, << "**Stop-loss**", stop_loss >>,
       << "**Target 1**", target1 >>, << "**Target 2**", "120" >>,
       << "**Lessons applied**", lessons >> >>

TextSound == Decision("BUY", "85", "100", "95", "110", "lesson 1")
TextWideStop == Decision("buy", "High", "100", "70", "110", "lesson 1")
TextSell == Decision("SELL", "85", "100", "105", "90", "lesson 1")
TextBadNumber == Decision("BUY", "85", "1.2.3", "95", "110", "lesson 1")
TextNoLesson == Decision("BUY", "150", "1,000", "95", "110", "None")
TextHoldOnly == << << "**DECISION**", "HOLD" >> >>
TextFree == << << "", "no position for now" >> >>

DecisionTexts ==
    { TextSound, TextWideStop, TextSell, TextBadNumber, TextNoLesson,
      TextHoldOnly, TextFree }
RefinedTexts == { TextSound, TextWideStop, TextFree }

\* keys of risk_debate_state that risk_manager_node reads with []
RiskManagerKeys ==
    << "history", "aggressive_history", "conservative_history", "neutral_history",
       "current_aggressive_response", "current_conservative_response",
       "current_neutral_response", "count" >>

\* risk_manager_node; response and refined are the LLM's answers to the
\* decision prompt and to the refine prompt
RiskManagerNode(response, refined) ==
    /\ Running
    /\ IF "investment_plan" \notin DOMAIN state
       THEN Raises(NodeRun("risk_manager"), "investment_plan")
       ELSE
         \E past \in { GetMemories(Store, Txt(<<>>, <<>>), 2, NoDate,
                                    [corpus |-> FALSE, query |-> FALSE]) } :
         LET risk_debate_state == state["risk_debate_state"]
             has_memory == \E p \in 1..Len(past.result) :
                               past.result[p].recommendation # ""
             market_type == Get(state, "market_type", "crypto")
             suggested_direction == Get(state, "suggested_direction", "")
             r == _self_refine(response, refined, market_type,
                               suggested_direction, has_memory)
             run == [NodeRun("risk_manager") EXCEPT
                        !.llm_calls = 1 + r.llm_calls, !.has_memory = has_memory,
                        !.response = response,
                        !.refined = IF r.llm_calls = 0 THEN EmptyStr ELSE refined,
                        !.issues = r.issues, !.content = r.content]
             missing == { i \in 1..Len(RiskManagerKeys) :
                            RiskManagerKeys[i] \notin DOMAIN risk_debate_state }
         IN  IF past.outcome = "raise"
             THEN Raises(NodeRun("risk_manager"), past.error)
             ELSE IF missing # {}
             THEN Raises(run, RiskManagerKeys[CHOOSE i \in missing :
                                                 \A j \in missing : i <= j])
             ELSE Completes("risk_manager",
                      [risk_debate_state |->
                          [judge_decision |-> r.content,
                           history |-> risk_debate_state["history"],
                           aggressive_history |-> risk_debate_state["aggressive_history"],
                           conservative_history |-> risk_debate_state["conservative_history"],
                           neutral_history |-> risk_debate_state["neutral_history"],
                           latest_speaker |-> "Judge",
                           current_aggressive_response |->
                               risk_debate_state["current_aggressive_response"],
                           current_conservative_response |->
                               risk_debate_state["current_conservative_response"],
                           current_neutral_response |->
                               risk_debate_state["current_neutral_response"],
                           count |-> risk_debate_state["count"]],
                       final_trade_decision |-> r.content],
                      run)

\* the state handed to the graph: create_initial_state, with the caller's
\* direction lock when there is one, and the risk manager's memory empty or
\* holding one lesson
InitGraph ==
    /\ adding = NotAdding
    /\ SignalIdle
    /\ \E market_type \in { "crypto", "us" }, lock \in { "", "long", "short" } :
          state = LET s == CreateInitialState("BTCUSDT", "2024-03-15", market_type)
                  IN  IF lock = "" THEN s
                      ELSE Update(s, [suggested_direction |-> lock])
    /\ runs = [n \in Nodes |-> 0]
    /\ node = NodeRun("idle")
    /\ max_documents = 50
    /\ hybrid_enabled = FALSE
    /\ \E lessons \in { <<>>, << <<SitFed, "recFed">> >> } :
          /\ documents = Firsts(lessons)
          /\ recommendations = Seconds(lessons)
          /\ inserted = lessons
    /\ pinned_documents = <<>>
    /\ pinned_recommendations = <<>>
    /\ bm25 = RebuildIndex(pinned_documents, documents)
    /\ doc_embeddings = NoMatrix
    /\ embeddings_dirty = TRUE
    /\ last = Call("idle")

NextGraph ==
    \/ \E content \in Contents : BullNode(content)
    \/ \E content \in Contents : BearNode(content)
    \/ \E content \in Plans : ResearchManagerNode(content)
    \/ \E content \in Plans : TraderNode(content)
    \/ \E content \in Contents : ConservativeNode(content)
    \/ \E content \in Contents : NeutralNode(content)
    \/ \E response \in DecisionTexts, refined \in RefinedTexts :
           RiskManagerNode(response, refined)

SpecGraph == InitGraph /\ [][NextGraph]_vars


\* the issues validation reports for a decision text at the last risk-manager run
IssuesOf(text) ==
    _validate_decision(_parse_decision_fields(text),
                       Get(state, "market_type", "crypto"),
                       Get(state, "suggested_direction", ""), node.has_memory)

\* C26: a risk-manager run that reached its LLM call made one more call, the
\* refinement, exactly when validation of the parsed first answer reported an
\* issue, so at most two in all; it kept the first answer when there was no
\* issue or nothing could be parsed, and otherwise took the refined answer as
\* it came, without validating it
C26_AtMostOneRefinement ==
    node.name = "risk_manager" /\ node.llm_calls >= 1 =>
        /\ node.llm_calls = IF IssuesOf(node.response) # <<>> THEN 2 ELSE 1
        /\ node.issues = IssuesOf(node.response)
        /\ IssuesOf(node.response) = <<>> => node.content = node.response
        /\ DOMAIN _parse_decision_fields(node.response) = {} =>
               node.content = node.response
        /\ IssuesOf(node.response) # <<>> => node.content = node.refined
        /\ node.outcome = "return" => state["final_trade_decision"] = node.content

\* C26 witness: the first answer had an issue, the refined answer has one too,
\* and the refined answer is the final decision after two LLM calls
C26_RefinedNotValidated ==
    /\ node.name = "risk_manager" /\ node.outcome = "return"
    /\ node.llm_calls = 2
    /\ IssuesOf(node.response) # <<>>
    /\ IssuesOf(node.refined) # <<>>
    /\ state["final_trade_decision"] = node.refined


\* the str under key of a debate state, "" when the key is absent
Hist(st, debate, key) == Get(st[debate], key, EmptyStr)

InvestHistories == { "history", "bull_history", "bear_history" }
RiskHistories ==
    { "history", "aggressive_history", "conservative_history", "neutral_history" }

\* the histories a debater speaks into, and the name it speaks under
Speaks ==
    [bull |-> [debate |-> "investment_debate_state", own |-> "bull_history",
               all |-> InvestHistories, speaker |-> "Bull Analyst: "],
     bear |-> [debate |-> "investment_debate_state", own |-> "bear_history",
               all |-> InvestHistories, speaker |-> "Bear Analyst: "],
     conservative |-> [debate |-> "risk_debate_state", own |-> "conservative_history",
                       all |-> RiskHistories, speaker |-> "Conservative Analyst: "],
     neutral |-> [debate |-> "risk_debate_state", own |-> "neutral_history",
                  all |-> RiskHistories, speaker |-> "Neutral Analyst: "]]

OtherDebate(debate) ==
    IF debate = "risk_debate_state" THEN "investment_debate_state"
    ELSE "risk_debate_state"

HistoriesKept(debate, keys) ==
    /\ state'[debate]["count"] = state[debate]["count"]
    /\ \A key \in keys : Hist(state', debate, key) = Hist(state, debate, key)

\* a debater run: one more in its count, its argument at the end of the shared
\* and of its own history, every other history as it was
DebaterStep(name) ==
    LET d == Speaks[name]
    IN  /\ state'[d.debate]["count"] = state[d.debate]["count"] + 1
        /\ \E content \in Contents :
              \A key \in { "history", d.own } :
                  Hist(state', d.debate, key) =
                      AddLine(Hist(state, d.debate, key), Argument(d.speaker, content))
        /\ \A key \in d.all \ { "history", d.own } :
               Hist(state', d.debate, key) = Hist(state, d.debate, key)
        /\ HistoriesKept(OtherDebate(d.debate),
                         IF d.debate = "risk_debate_state" THEN InvestHistories
                         ELSE RiskHistories)

\* C29: from create_initial_state on, the investment debate count is the
\* number of bull and bear runs and the risk debate count the number of
\* conservative and neutral runs; a debater run adds 1 to its count and its
\* argument to the shared and to its own history and leaves the other
\* histories alone; a research-manager or risk-manager run leaves both counts
\* and all histories as they were
C29_CountsFollowRuns ==
    /\ [](/\ state["investment_debate_state"]["count"] = runs["bull"] + runs["bear"]
          /\ state["risk_debate_state"]["count"] =
                 runs["conservative"] + runs["neutral"])
    /\ [][runs' # runs =>
            IF node'.name \in DOMAIN Speaks THEN DebaterStep(node'.name)
            ELSE IF node'.name \in { "research_manager", "risk_manager" }
            THEN /\ HistoriesKept("investment_debate_state", InvestHistories)
                 /\ HistoriesKept("risk_debate_state", RiskHistories)
            ELSE TRUE]_vars

\* C29 witness: both debates have had a turn and the research manager has
\* judged the first
C29_BothDebatesMoved ==
    /\ state["investment_debate_state"]["count"] = 1
    /\ state["risk_debate_state"]["count"] = 1
    /\ runs["research_manager"] = 1
    /\ Hist(state, "risk_debate_state", "history") # EmptyStr
    /\ Hist(state, "investment_debate_state", "history") # EmptyStr


\* C30: a risk-manager run on a state whose risk_debate_state came from
\* create_initial_state through zero or more conservative and neutral runs
\* finds every key it reads and returns
C30_RiskManagerCompletes ==
    node.name = "risk_manager" /\ "investment_plan" \in DOMAIN state =>
        /\ node.outcome = "return"
        /\ \A i \in 1..Len(RiskManagerKeys) :
               RiskManagerKeys[i] \in DOMAIN state["risk_debate_state"]

====
